---- MODULE Spec2Model ----
(***************************************************************************)
(* Model of model/decoder.py: the Decoder orchestrator of the im2latex     *)
(* attention decoder.  Decoder.__init__ and Decoder.__call__ are followed  *)
(* statement by statement; pc is the position inside them.  The graph that *)
(* __call__ builds is run as it is built: the fixed-length driver applies  *)
(* the attention cell once per TrainStep and the adaptive driver applies   *)
(* the decoder cell once per DecodeStep.                                   *)
(*                                                                         *)
(* The components imported at decoder.py:8-14 (dynamic_decode,             *)
(* AttentionMechanism, AttentionCell, GreedyDecoderCell,                   *)
(* BeamSearchDecoderCell, BSOCell) are not part of the sources at hand;    *)
(* they are modelled from sections 4.1-4.6 of the design document.         *)
(* One batch element is modelled (batch elements are independent groups;   *)
(* the K hypotheses of the group play the part of the driver's samples).   *)
(***************************************************************************)
EXTENDS Integers, Sequences, FiniteSets, TLC

VARIABLES
    pc,              \* position in __init__ / __call__
    config,          \* self._config
    id_end,          \* self._id_end
    tiles,           \* self._tiles
    formula,         \* the formula argument of __call__ (token ids)
    variables,       \* the variable store: sequence of [name, site]
    embeddings,      \* local `embeddings` of __call__
    train_tiles,     \* tiling factor of the training-side AttentionMechanism
    train_params,    \* handles (indices in variables) read by the training cell
    train_inputs,    \* the sequence handed to tf.nn.dynamic_rnn
    train_outputs,   \* per-step outputs of the training unroll
    decode_tiles,    \* tiling factor of the decode-side AttentionMechanism
    decode_params,   \* handles read by the decode cell
    decoder_cell,    \* local `decoder_cell`: "unbound" or the cell built
    bso_inputs,      \* local `bso_inputs`
    decoder_output,  \* local `decoder_output`: the set of keys present
    error,           \* the exception that left __call__, or "none"
    time,            \* the adaptive driver's step counter
    hyps,            \* the decoder cell's hypotheses (K per batch element)
    logits_hist      \* logits_hist[t][k]: the attention cell's logits for hypothesis k at step t

vars == << pc, config, id_end, tiles, formula, variables, embeddings,
           train_tiles, train_params, train_inputs, train_outputs,
           decode_tiles, decode_params, decoder_cell, bso_inputs,
           decoder_output, error, time, hyps, logits_hist >>

(***************************************************************************)
(* Bounds of the model.                                                    *)
(***************************************************************************)
NTok == 3
MaxBeam == 3
MaxGamma == 2
MaxLengthFormula == 2
MaxFormulaLen == 2

Tokens == 0 .. (NTok - 1)

\* An unknown decoding mode stands for every malformed value of the option.
Decodings == {"greedy", "beam_search", "sampling"}

Configs ==
    [ decoding : Decodings,
      beam_size : 1 .. MaxBeam,
      div_gamma : {0, MaxGamma},
      div_prob : {0, 1},
      max_length_formula : 1 .. MaxLengthFormula,
      beam_search_optimization : BOOLEAN ]

IdEnds == {NTok - 1}

\* The formulas fed to __call__: every sequence of at most MaxFormulaLen
\* tokens over an ordinary token and the end token.
FormulaTokens == {0, NTok - 1}

RECURSIVE SeqsOfLen(_)
SeqsOfLen(n) ==
    IF n = 0 THEN {<< >>}
    ELSE {Append(f, w) : f \in SeqsOfLen(n - 1), w \in FormulaTokens}

Formulas == UNION {SeqsOfLen(n) : n \in 0 .. MaxFormulaLen}

(***************************************************************************)
(* Decoder.__init__                                                        *)
(***************************************************************************)
TilesAlwaysBeamSize(cfg) == cfg.beam_size

Tiles(cfg) == IF cfg.decoding = "greedy" THEN 1 ELSE cfg.beam_size

\* Tiling factor of an AttentionMechanism built without a `tiles` argument.
DefaultTiles == 1

NoCell == [kind |-> "unbound"]

Init ==
    /\ pc = "new"
    /\ config \in Configs
    /\ id_end \in IdEnds
    /\ tiles = 0
    /\ formula = << >>
    /\ variables = << >>
    /\ embeddings = << >>
    /\ train_tiles = 0
    /\ train_params = {}
    /\ train_inputs = << >>
    /\ train_outputs = << >>
    /\ decode_tiles = 0
    /\ decode_params = {}
    /\ decoder_cell = NoCell
    /\ bso_inputs = << >>
    /\ decoder_output = {}
    /\ error = "none"
    /\ time = 0
    /\ hyps = << >>
    /\ logits_hist = << >>

Construct ==
    /\ pc = "new"
    /\ tiles' = Tiles(config)
    /\ pc' = "constructed"
    /\ UNCHANGED << config, id_end, formula, variables, embeddings, train_tiles,
                    train_params, train_inputs, train_outputs, decode_tiles,
                    decode_params, decoder_cell, bso_inputs, decoder_output,
                    error, time, hyps, logits_hist >>

(***************************************************************************)
(* Variables and variable scopes (tf.get_variable, tf.variable_scope).     *)
(* A handle is an index in the store; a name is created at most once.      *)
(***************************************************************************)
RootScope == [name |-> "", reuse |-> FALSE]
TrainScope == [name |-> "attn_cell", reuse |-> FALSE]

DecodeScopeFresh == [name |-> "attn_cell_1", reuse |-> FALSE]

DecodeScope == [name |-> "attn_cell", reuse |-> TRUE]

FullName(scope, name) == IF scope.name = "" THEN name ELSE scope.name \o "/" \o name

Handle(store, full) ==
    IF \E i \in 1 .. Len(store) : store[i].name = full
    THEN CHOOSE i \in 1 .. Len(store) : store[i].name = full
    ELSE 0

\* One tf.get_variable call: [store, handle, ok].
get_variable(store, scope, name, site) ==
    LET full == FullName(scope, name)
        h == Handle(store, full)
    IN  IF scope.reuse
        THEN [store |-> store, handle |-> h, ok |-> h # 0]
        ELSE IF h # 0
             THEN [store |-> store, handle |-> 0, ok |-> FALSE]
             ELSE [store |-> Append(store, [name |-> full, site |-> site]),
                   handle |-> Len(store) + 1, ok |-> TRUE]

\* The parameters an AttentionCell asks for when it is traced: those of its
\* AttentionMechanism, of its recurrent cell and its own two projections.
CellParamNames ==
    << "attn_meca/W_img", "attn_meca/W_h", "attn_meca/beta",
       "lstm_cell/kernel", "lstm_cell/bias", "W_o", "W_y" >>

RECURSIVE TraceCell(_, _, _, _)
\* get_variable for names[i..] in order: [store, handles, ok].
TraceCell(store, scope, site, i) ==
    IF i > Len(CellParamNames)
    THEN [store |-> store, handles |-> {}, ok |-> TRUE]
    ELSE LET g == get_variable(store, scope, CellParamNames[i], site)
         IN  IF ~g.ok
             THEN [store |-> store, handles |-> {}, ok |-> FALSE]
             ELSE LET rest == TraceCell(g.store, scope, site, i + 1)
                  IN  [store |-> rest.store,
                       handles |-> {g.handle} \cup rest.handles,
                       ok |-> rest.ok]

(***************************************************************************)
(* __call__, lines 42-50: E, start_token, decoder_output = {}              *)
(***************************************************************************)
CallPrologue ==
    /\ pc = "constructed"
    /\ \E f \in Formulas : formula' = f
    /\ LET e == get_variable(variables, RootScope, "E", "prologue")
           s == get_variable(e.store, RootScope, "start_token", "prologue")
       IN  variables' = s.store
    /\ decoder_output' = {}
    /\ pc' = "training"
    /\ UNCHANGED << config, id_end, tiles, embeddings, train_tiles, train_params,
                    train_inputs, train_outputs, decode_tiles, decode_params,
                    decoder_cell, bso_inputs, error, time, hyps, logits_hist >>

(***************************************************************************)
(* Embeddings                                                              *)
(***************************************************************************)
\* tf.nn.embedding_lookup(E, id): row `id` of the table E.
embedding_lookup(tok) == [var |-> "E", row |-> tok]

\* The learned start-token vector.
start_token == [var |-> "start_token", row |-> 0]

\* get_embeddings: the start token followed by the embedding of every formula token.
get_embeddings(f) == << start_token >> \o [i \in 1 .. Len(f) |-> embedding_lookup(f[i])]

\* embeddings[:, 1:, :]
SliceFromOne(emb) == IF Len(emb) = 0 THEN << >> ELSE SubSeq(emb, 2, Len(emb))

SliceWholeSequence(emb) == emb

\* embeddings[:, :-1, :]
SliceButLast(emb) == IF Len(emb) = 0 THEN << >> ELSE SubSeq(emb, 1, Len(emb) - 1)

(***************************************************************************)
(* __call__, lines 53-64: the training graph                               *)
(***************************************************************************)
BuildTraining ==
    /\ pc = "training"
    /\ embeddings' = get_embeddings(formula)
    /\ train_tiles' = DefaultTiles
    /\ LET tr == TraceCell(variables, TrainScope, "train", 1)
       IN  /\ variables' = tr.store
           /\ train_params' = tr.handles \cup {Handle(variables, "E"), Handle(variables, "start_token")}
    /\ train_inputs' = SliceButLast(embeddings')
    /\ train_outputs' = << >>
    /\ pc' = "train_unroll"
    /\ UNCHANGED << config, id_end, tiles, formula, decode_tiles, decode_params,
                    decoder_cell, bso_inputs, decoder_output, error, time, hyps,
                    logits_hist >>

\* One application of the attention cell by tf.nn.dynamic_rnn.
TrainStep ==
    /\ pc = "train_unroll"
    /\ Len(train_outputs) < Len(train_inputs)
    /\ train_outputs' = Append(train_outputs,
           [step |-> Len(train_outputs), input |-> train_inputs[Len(train_outputs) + 1]])
    /\ UNCHANGED << pc, config, id_end, tiles, formula, variables, embeddings,
                    train_tiles, train_params, train_inputs, decode_tiles,
                    decode_params, decoder_cell, bso_inputs, decoder_output,
                    error, time, hyps, logits_hist >>

\* line 64: decoder_output["train"] = train_outputs
TrainDone ==
    /\ pc = "train_unroll"
    /\ Len(train_outputs) = Len(train_inputs)
    /\ decoder_output' = decoder_output \cup {"train"}
    /\ pc' = "decoding"
    /\ UNCHANGED << config, id_end, tiles, formula, variables, embeddings,
                    train_tiles, train_params, train_inputs, train_outputs,
                    decode_tiles, decode_params, decoder_cell, bso_inputs,
                    error, time, hyps, logits_hist >>

(***************************************************************************)
(* __call__, lines 67-74: the decode-side attention cell                   *)
(***************************************************************************)
BuildDecodeAttention ==
    /\ pc = "decoding"
    /\ decode_tiles' = tiles
    /\ LET tr == TraceCell(variables, DecodeScope, "decode", 1)
       IN  IF tr.ok
           THEN /\ variables' = tr.store
                /\ decode_params' = tr.handles
                /\ pc' = "select_cell"
                /\ error' = error
           ELSE /\ variables' = variables
                /\ decode_params' = {}
                /\ pc' = "raised"
                /\ error' = "ValueError"
    /\ UNCHANGED << config, id_end, tiles, formula, embeddings, train_tiles,
                    train_params, train_inputs, train_outputs, decoder_cell,
                    bso_inputs, decoder_output, time, hyps, logits_hist >>

(***************************************************************************)
(* __call__, lines 75-87: the decoder cell                                 *)
(***************************************************************************)
\* Names bound when line 75 is reached: parameters and locals of __call__,
\* and the module's globals.
CallLocals ==
    { "self", "training", "img", "formula", "dropout", "dim_embeddings", "E",
      "start_token", "batch_size", "decoder_output", "embeddings", "attn_meca",
      "recu_cell", "train_outputs", "attn_cell" }

ModuleGlobals ==
    { "np", "tf", "nest", "layers", "GRUCell", "LSTMCell", "dynamic_decode",
      "AttentionMechanism", "AttentionCell", "GreedyDecoderCell",
      "BeamSearchDecoderCell", "BSOCell", "get_inputs", "bso_cross_entropy",
      "dynamic_rnn", "Decoder", "get_embeddings", "embedding_initializer" }

\* Evaluation of a bare name inside __call__.
NameBound(name) == name \in CallLocals \cup ModuleGlobals

\* GreedyDecoderCell(E, attn_cell, batch_size, start_token, id_end), lines 76-77:
\* the last argument is the bare name id_end.
GreedyCellArgs(idEnd) ==
    IF NameBound("id_end")
    THEN [error |-> "none", cell |-> [kind |-> "greedy", end_token |-> idEnd, beam_size |-> 1,
                                      div_gamma |-> 0, div_prob |-> 0]]
    ELSE [error |-> "NameError", cell |-> NoCell]

BeamCellArgsOtherEnd(cfg, idEnd) ==
    [kind |-> "beam", end_token |-> (idEnd + 1) % NTok, beam_size |-> cfg.beam_size,
     div_gamma |-> cfg.div_gamma, div_prob |-> cfg.div_prob]

BeamCellArgsFixedGamma(cfg, idEnd) ==
    [kind |-> "beam", end_token |-> idEnd, beam_size |-> cfg.beam_size,
     div_gamma |-> MaxGamma, div_prob |-> 1]

\* BeamSearchDecoderCell(E, attn_cell, batch_size, start_token, self._id_end,
\*     beam_size, div_gamma, div_prob), lines 79-81.
BeamCellArgs(cfg, idEnd) ==
    [kind |-> "beam", end_token |-> idEnd, beam_size |-> cfg.beam_size,
     div_gamma |-> cfg.div_gamma, div_prob |-> cfg.div_prob]

\* get_inputs(formula, embeddings[:, 1:, :]): ground-truth ids with their embeddings.
get_inputs(f, emb) == [i \in 1 .. Len(f) |-> [id |-> f[i], embedding |-> emb[i]]]

\* Whether lines 82-87 run.
BuildsBSO(cfg) == cfg.decoding = "beam_search" /\ cfg.beam_search_optimization

\* The parameters the decoder cell was handed at construction: E and start_token.
CellEmbeddingParams(store) == {Handle(store, "E"), Handle(store, "start_token")}

SelectCell ==
    /\ pc = "select_cell"
    /\ IF config.decoding = "greedy"
       THEN LET g == GreedyCellArgs(id_end)
            IN  /\ decoder_cell' = g.cell
                /\ error' = g.error
                /\ pc' = IF g.error = "none" THEN "dynamic_decode" ELSE "raised"
                /\ decode_params' = IF g.error = "none"
                                    THEN decode_params \cup CellEmbeddingParams(variables)
                                    ELSE decode_params
       ELSE IF config.decoding = "beam_search"
       THEN /\ decoder_cell' = BeamCellArgs(config, id_end)
            /\ decode_params' = decode_params \cup CellEmbeddingParams(variables)
            /\ error' = error
            /\ pc' = "dynamic_decode"
       ELSE /\ UNCHANGED << decoder_cell, decode_params, error >>
            /\ pc' = "dynamic_decode"
    /\ IF BuildsBSO(config)
       THEN /\ bso_inputs' = get_inputs(formula, SliceFromOne(embeddings))
            /\ decoder_output' = decoder_output \cup {"bso"}
       ELSE UNCHANGED << bso_inputs, decoder_output >>
    /\ UNCHANGED << config, id_end, tiles, formula, variables, embeddings,
                    train_tiles, train_params, train_inputs, train_outputs,
                    decode_tiles, time, hyps, logits_hist >>

(***************************************************************************)
(* The attention cell's output.  The network is a function of the image,   *)
(* the parameters and the hypothesis' history; every step draws, for every *)
(* live hypothesis, one row of logits from LogitRows.                      *)
(***************************************************************************)
\* A row whose largest logit is at token p; the next token (cyclically) is g
\* below it and every further token one more below.
RowPeak(p, g) ==
    [i \in Tokens |-> IF i = p THEN 2 * NTok
                      ELSE 2 * NTok - g - (((i - p + NTok) % NTok) - 1)]

LogitRows == {RowPeak(0, 2), RowPeak(NTok - 1, 1)}

\* The row recorded for a hypothesis whose logits are not looked at.
IdleRow == RowPeak(0, 2)

RowMax(row) == CHOOSE m \in {row[i] : i \in Tokens} : \A i \in Tokens : row[i] <= m

\* argmax over the logits; the lowest index among equal maxima.
ArgMax(row) == CHOOSE i \in Tokens : /\ row[i] = RowMax(row)
                                     /\ \A j \in Tokens : row[j] = RowMax(row) => i <= j

\* log-softmax in integer units: a row-wise shift that makes every entry <= 0
\* (the normaliser is taken at the row's maximum).
LogSoftmax(row) == [i \in Tokens |-> row[i] - RowMax(row)]

\* Minus infinity: below every finite (penalised) cumulative score.
NegInf == 0 - ((MaxLengthFormula + 3) * (NTok + 3) + (MaxGamma + 1) * (NTok + 1))

Plus(a, b) == IF a = NegInf THEN NegInf ELSE a + b

(***************************************************************************)
(* GreedyDecoderCell (design document, 4.3)                                *)
(***************************************************************************)
GreedyInitial ==
    << [ids |-> << >>, score |-> 0, sel |-> 0, done |-> FALSE, parent |-> 1,
        frozen |-> FALSE, embedding |-> start_token] >>

GreedyStep(hs, rows, cell) ==
    LET h == hs[1]
        tok == IF h.done THEN cell.end_token ELSE ArgMax(rows[1])
    IN  << [ids |-> Append(h.ids, tok), score |-> 0, sel |-> 0,
            done |-> h.done \/ tok = cell.end_token, parent |-> 1,
            frozen |-> h.done, embedding |-> embedding_lookup(tok)] >>

(***************************************************************************)
(* BeamSearchDecoderCell (design document, 4.4)                            *)
(***************************************************************************)
\* Replica 1 starts at 0, the others at minus infinity.
BeamInitial(K) ==
    [k \in 1 .. K |->
        [ids |-> << >>, score |-> IF k = 1 THEN 0 ELSE NegInf,
         sel |-> IF k = 1 THEN 0 ELSE NegInf, done |-> FALSE, parent |-> k,
         frozen |-> FALSE, embedding |-> start_token]]

\* Rank of token w among the continuations of one parent (0 is the best).
SiblingRank(lp, w) ==
    Cardinality({v \in Tokens : lp[v] > lp[w] \/ (lp[v] = lp[w] /\ v < w)})

\* The diversity penalty of the rank-th continuation of a parent.  div_prob is
\* taken at its two ends only: at 0 the penalty is never applied, at 1 always.
Penalty(cell, rank) == IF cell.div_prob = 1 THEN cell.div_gamma * rank ELSE 0

\* A completed parent propagates itself: one candidate, same score.
FrozenCandidate(hs, p, cell) ==
    {[parent |-> p, tok |-> cell.end_token, score |-> hs[p].score,
      sel |-> hs[p].score, flat |-> (p - 1) * NTok + cell.end_token]}

\* The n_tok continuations of a live parent.
LiveCandidates(hs, p, row, cell) ==
    LET lp == LogSoftmax(row)
    IN  {[parent |-> p, tok |-> w, score |-> Plus(hs[p].score, lp[w]),
          sel |-> Plus(Plus(hs[p].score, lp[w]), 0 - Penalty(cell, SiblingRank(lp, w))),
          flat |-> (p - 1) * NTok + w] : w \in Tokens}

Candidates(hs, rows, cell) ==
    UNION {IF hs[p].done THEN FrozenCandidate(hs, p, cell)
           ELSE LiveCandidates(hs, p, rows[p], cell) : p \in 1 .. Len(hs)}

\* top-k order: by penalised score, the lower flat index first among equals.
Better(c, d) == c.sel > d.sel \/ (c.sel = d.sel /\ c.flat < d.flat)

\* The candidate at position r (0 is the best).
Ranked(cands, r) == CHOOSE c \in cands : Cardinality({d \in cands : Better(d, c)}) = r

BeamStep(hs, rows, cell) ==
    LET cands == Candidates(hs, rows, cell)
    IN  [k \in 1 .. cell.beam_size |->
            LET c == Ranked(cands, k - 1)
            IN  [ids |-> Append(hs[c.parent].ids, c.tok), score |-> c.score,
                 sel |-> c.sel,
                 done |-> hs[c.parent].done \/ c.tok = cell.end_token,
                 parent |-> c.parent, frozen |-> hs[c.parent].done,
                 embedding |-> embedding_lookup(c.tok)]]

(***************************************************************************)
(* dynamic_decode (design document, 4.6) and __call__, lines 89-93         *)
(***************************************************************************)
InitialState(cell) ==
    IF cell.kind = "greedy" THEN GreedyInitial ELSE BeamInitial(cell.beam_size)

CellStep(hs, rows, cell) ==
    IF cell.kind = "greedy" THEN GreedyStep(hs, rows, cell) ELSE BeamStep(hs, rows, cell)

MaximumIterationsOneMore(cfg) == cfg.max_length_formula + 2

\* The second argument of dynamic_decode, line 90.
MaximumIterations(cfg) == cfg.max_length_formula + 1

AllDone(hs) == \A k \in 1 .. Len(hs) : hs[k].done

\* The logits of a hypothesis are looked at only if it is live and reachable.
Looked(h) == ~h.done /\ h.score # NegInf

\* Line 89: the call of dynamic_decode evaluates the local decoder_cell.
StartDecode ==
    /\ pc = "dynamic_decode"
    /\ IF decoder_cell = NoCell
       THEN /\ error' = "UnboundLocalError"
            /\ pc' = "raised"
            /\ UNCHANGED << time, hyps >>
       ELSE /\ time' = 0
            /\ hyps' = InitialState(decoder_cell)
            /\ pc' = "decode"
            /\ error' = error
    /\ UNCHANGED << config, id_end, tiles, formula, variables, embeddings,
                    train_tiles, train_params, train_inputs, train_outputs,
                    decode_tiles, decode_params, decoder_cell, bso_inputs,
                    decoder_output, logits_hist >>

\* One pass of the adaptive driver's loop: one application of the decoder cell.
DecodeStep ==
    /\ pc = "decode"
    /\ time < MaximumIterations(config)
    /\ ~AllDone(hyps)
    /\ \E rows \in [1 .. Len(hyps) -> LogitRows] :
          /\ \A k \in 1 .. Len(hyps) : ~Looked(hyps[k]) => rows[k] = IdleRow
          /\ hyps' = CellStep(hyps, rows, decoder_cell)
          /\ logits_hist' = Append(logits_hist, rows)
    /\ time' = time + 1
    /\ UNCHANGED << pc, config, id_end, tiles, formula, variables, embeddings,
                    train_tiles, train_params, train_inputs, train_outputs,
                    decode_tiles, decode_params, decoder_cell, bso_inputs,
                    decoder_output, error >>

\* The loop has ended; lines 91-93.
DecodeReturn ==
    /\ pc = "decode"
    /\ (time >= MaximumIterations(config) \/ AllDone(hyps))
    /\ decoder_output' = decoder_output \cup {"pred"}
    /\ pc' = "returned"
    /\ UNCHANGED << config, id_end, tiles, formula, variables, embeddings,
                    train_tiles, train_params, train_inputs, train_outputs,
                    decode_tiles, decode_params, decoder_cell, bso_inputs,
                    error, time, hyps, logits_hist >>

Next ==
    \/ Construct
    \/ CallPrologue
    \/ BuildTraining
    \/ TrainStep
    \/ TrainDone
    \/ BuildDecodeAttention
    \/ SelectCell
    \/ StartDecode
    \/ DecodeStep
    \/ DecodeReturn

Spec == Init /\ [][Next]_vars

(***************************************************************************)
(* The greedy decode of a Decoder built from the same arguments, run on    *)
(* the logits in hist (hist[t][1] is the row of step t).                   *)
(***************************************************************************)
RECURSIVE GreedyRun(_, _, _, _)
GreedyRun(hs, hist, cell, cap) ==
    IF Len(hs[1].ids) >= cap \/ AllDone(hs) \/ Len(hs[1].ids) >= Len(hist)
    THEN hs
    ELSE GreedyRun(GreedyStep(hs, hist[Len(hs[1].ids) + 1], cell), hist, cell, cap)

GreedyCall(cfg, idEnd, hist) ==
    LET g == GreedyCellArgs(idEnd)
    IN  IF g.error # "none"
        THEN [error |-> g.error, ids |-> << >>]
        ELSE [error |-> "none",
              ids |-> GreedyRun(GreedyInitial, hist, g.cell, MaximumIterations(cfg))[1].ids]

(***************************************************************************)
(* Properties                                                              *)
(***************************************************************************)
Decoding == pc \in {"decode", "returned"}
Cap == config.max_length_formula + 1

C1_CapState ==
    Decoding =>
        /\ time <= Cap
        /\ Len(logits_hist) = time
        /\ \A k \in 1 .. Len(hyps) : Len(hyps[k].ids) = time
        /\ (pc = "decode" /\ time = Cap) => ENABLED DecodeReturn

C1_CapStep ==
    (pc = "decode" /\ hyps' # hyps) => (time' = time + 1 /\ time' <= Cap)

\* C1: every decode applies the decoder cell at most max_length_formula+1
\* times, each application advances the step counter, and at the cap the
\* driver returns; so every id sequence has at most max_length_formula+1
\* tokens, whether or not id_end is ever emitted.
C1_DecodeStopsAtCap == [] C1_CapState /\ [][C1_CapStep]_vars

C1_Witness ==
    /\ pc = "returned"
    /\ config.max_length_formula = MaxLengthFormula
    /\ time = Cap
    /\ \A k \in 1 .. Len(hyps) : ~hyps[k].done /\ Len(hyps[k].ids) = Cap

\* The id sequence stops at the first id_end, or at the cap without one.
StopsAtFirstEnd(ids, idEnd, cap) ==
    /\ \A i \in 1 .. Len(ids) - 1 : ids[i] # idEnd
    /\ Len(ids) <= cap
    /\ (Len(ids) < cap => (Len(ids) > 0 /\ ids[Len(ids)] = idEnd))

\* C2: with decoding = "greedy", __call__ builds the greedy cell with the
\* Decoder's id_end, does not raise, and returns an output with "pred" whose
\* id sequence stops at the first id_end or at the cap.
C2_GreedyBuildsAndStops ==
    config.decoding = "greedy" =>
        /\ pc # "raised"
        /\ pc \in {"dynamic_decode", "decode", "returned"} =>
               (decoder_cell.kind = "greedy" /\ decoder_cell.end_token = id_end)
        /\ pc = "returned" =>
               ("pred" \in decoder_output /\ StopsAtFirstEnd(hyps[1].ids, id_end, Cap))

\* C3: a beam search with beam_size = 1 and div_gamma = 0 returns the id
\* sequence of the greedy decode that the same Decoder arguments give on the
\* same logits.
C3_BeamOneIsGreedy ==
    (/\ pc = "returned"
     /\ config.decoding = "beam_search"
     /\ config.beam_size = 1
     /\ config.div_gamma = 0) =>
        GreedyCall(config, id_end, logits_hist) = [error |-> "none", ids |-> hyps[1].ids]

C4_FrozenStep ==
    (pc = "decode" /\ hyps' # hyps) =>
        \A k \in 1 .. Len(hyps') :
            hyps[hyps'[k].parent].done =>
                /\ hyps'[k].ids = Append(hyps[hyps'[k].parent].ids, id_end)
                /\ hyps'[k].score = hyps[hyps'[k].parent].score
                /\ hyps'[k].done

C4_DoneState ==
    (Decoding /\ decoder_cell.kind = "beam") =>
        \A k \in 1 .. Len(hyps) :
            hyps[k].done <=> (Len(hyps[k].ids) > 0 /\ hyps[k].ids[Len(hyps[k].ids)] = id_end)

\* C4: a hypothesis is done exactly when its last token is id_end, and in
\* every beam-search step a survivor whose parent is done carries the
\* parent's token sequence followed only by id_end, and the parent's
\* cumulative log-probability.
C4_DoneIsFrozen == [] C4_DoneState /\ [][C4_FrozenStep]_vars

C4_Witness ==
    /\ pc = "decode"
    /\ \E k \in 1 .. Len(hyps) : hyps[k].frozen /\ hyps[k].score # NegInf
    /\ \E k \in 1 .. Len(hyps) : ~hyps[k].done /\ hyps[k].score # NegInf

SortedBy(op(_), hs) == \A k \in 1 .. Len(hs) - 1 : op(hs[k]) >= op(hs[k + 1])
ScoreOf(h) == h.score
SelOf(h) == h.sel

Malformed(cfg) == cfg.decoding \notin {"greedy", "beam_search"} \/ cfg.beam_size < 1

\* C6: with a malformed configuration no decode-side attention mechanism or
\* decoder cell is built from the configuration, nothing is unrolled, and
\* the call stops with a configuration error.
C6_MalformedFailsFast ==
    Malformed(config) =>
        /\ decode_tiles = 0
        /\ decoder_cell = NoCell
        /\ ~Decoding
        /\ pc = "raised" => error = "ConfigurationError"

DecodeCellTraced == pc \in {"select_cell", "dynamic_decode", "decode", "returned"}

\* C7: every parameter the decode graph reads was created for the training
\* graph, the decoder cell is handed the training graph's E and start_token,
\* and building the decode graph creates no variable.
C7_SharedParameters ==
    DecodeCellTraced =>
        /\ decode_params # {}
        /\ decode_params \subseteq train_params
        /\ \A i \in 1 .. Len(variables) : variables[i].site # "decode"
        /\ Len(variables) = Len(CellParamNames) + 2
        /\ \A i, j \in 1 .. Len(variables) : variables[i].name = variables[j].name => i = j
        /\ decoder_cell # NoCell => decode_params = train_params

C7_Witness ==
    /\ pc = "returned"
    /\ decode_params = train_params
    /\ Cardinality(decode_params) = Len(CellParamNames) + 2

\* C8: when __call__ has ended, for decoding "greedy" as for "beam_search",
\* the output has "bso" exactly when beam_search_optimization is set, and
\* has "train" and "pred".
C8_BsoIffOption ==
    (pc \in {"returned", "raised"} /\ ~Malformed(config)) =>
        /\ ("bso" \in decoder_output) <=> config.beam_search_optimization
        /\ {"train", "pred"} \subseteq decoder_output

TrainingBuilt == pc \notin {"new", "constructed", "training"}

\* C9: the training unroll takes T inputs for a formula of T tokens, the
\* start-token embedding first and then the embeddings of formula tokens
\* 0 .. T-2; the cell is applied once per input, in order, and the training
\* output has T steps.
C9_TeacherForcing ==
    TrainingBuilt =>
        /\ Len(train_inputs) = Len(formula)
        /\ Len(formula) >= 1 => train_inputs[1] = start_token
        /\ \A t \in 1 .. Len(formula) - 1 : train_inputs[t + 1] = embedding_lookup(formula[t])
        /\ Len(train_outputs) <= Len(formula)
        /\ \A i \in 1 .. Len(train_outputs) :
               train_outputs[i] = [step |-> i - 1, input |-> train_inputs[i]]
        /\ "train" \in decoder_output => Len(train_outputs) = Len(formula)

C9_Witness ==
    /\ "train" \in decoder_output
    /\ Len(formula) = MaxFormulaLen
    /\ Len(train_outputs) = MaxFormulaLen
    /\ formula[1] # formula[MaxFormulaLen]
    /\ train_outputs[MaxFormulaLen].input = embedding_lookup(formula[MaxFormulaLen - 1])

\* C10: the decode-side AttentionMechanism is tiled by the number of
\* hypotheses the decoder cell keeps (1 for greedy, beam_size for beam
\* search); the training-side one by 1.
C10_Tiling ==
    /\ TrainingBuilt => train_tiles = 1
    /\ decode_tiles # 0 =>
          /\ config.decoding = "greedy" => decode_tiles = 1
          /\ config.decoding = "beam_search" => decode_tiles = config.beam_size
          /\ decoder_cell # NoCell => decode_tiles = decoder_cell.beam_size
          /\ Decoding => Len(hyps) = decode_tiles

C10_Witness ==
    /\ pc = "returned"
    /\ config.beam_size = MaxBeam
    /\ decode_tiles = MaxBeam
    /\ Len(hyps) = MaxBeam
    /\ train_tiles = 1
====
